---- MODULE Spec2Model ----
(***************************************************************************)
(* Model of astore/server/auth/factory.go (package auth): the construction *)
(* of the authentication broker (Server) by New and its Modifiers, and of  *)
(* the session jar store the constructed Server owns.                      *)
(*                                                                         *)
(* Strings are sequences of one-character strings, so that TrimSuffix and  *)
(* Split are computed on characters.  A nil pointer is the empty sequence  *)
(* and a pointer to x is <<x>>.  A nil error is the string Nil.  Durations *)
(* are counted in minutes.                                                 *)
(***************************************************************************)
EXTENDS Integers, Sequences, FiniteSets, TLC

VARIABLES pc, args, ret, hist, now, wpc, last

vars == <<pc, args, ret, hist, now, wpc, last>>

Nil == "nil"

\* time.Minute, the unit in which durations are counted.
Minute == 1

(***************************************************************************)
(* Bounds and input sets.                                                  *)
(***************************************************************************)
MaxMods == 2
MaxUrlLen == 3

UrlChars == {"a", "/"}
StrsUpTo(alphabet, n) == UNION {[1..k -> alphabet] : k \in 0..n}
URLs == StrsUpTo(UrlChars, MaxUrlLen)

\* Raw --principals values: "", "p", "," and "p,q".
RawPrincipals == {<<>>, <<"p">>, <<",">>, <<"p", ",", "q">>}

\* The values the fields of a Flags given to WithFlags take: the URLs "", "/",
\* "//", "a" and "a/", no principal or one.
FlagURLs == {<<>>, <<"/">>, <<"/", "/">>, <<"a">>, <<"a", "/">>}
FlagPrincipals == {<<>>, <<"p">>}

\* CA file contents: an empty file, and a well-formed private key.
CAFiles == {"", "pem1"}
ValidKeys == {"pem1"}

TimeLimits == {0, 10 * Minute}
FlagTimeLimits == {20 * Minute}

(***************************************************************************)
(* String helpers of the Go standard library, on character sequences.      *)
(***************************************************************************)
HasSuffix(s, suffix) ==
    /\ Len(s) >= Len(suffix)
    /\ SubSeq(s, Len(s) - Len(suffix) + 1, Len(s)) = suffix

\* Mutant of TrimSuffix: nothing is stripped.
TrimSuffixNothing(s, suffix) == s

\* strings.TrimSuffix: s without the suffix if it ends with it, else s.
TrimSuffix(s, suffix) ==
    IF HasSuffix(s, suffix) THEN SubSeq(s, 1, Len(s) - Len(suffix)) ELSE s

\* strings.Split(s, ","): the substrings between the separators; a string
\* without a separator (the empty one included) gives the one-element list.
RECURSIVE Split(_)
Split(s) ==
    LET seps == {i \in 1..Len(s) : s[i] = ","}
    IN  IF seps = {} THEN <<s>>
        ELSE LET i == CHOOSE j \in seps : \A k \in seps : j <= k
             IN  <<SubSeq(s, 1, i - 1)>> \o Split(SubSeq(s, i + 1, Len(s)))

\* ssh.ParsePrivateKey: a signer for a well-formed key, an error otherwise.
ParsePrivateKey(fileContent) ==
    IF fileContent \in ValidKeys
    THEN [signer |-> <<fileContent>>, err |-> Nil]
    ELSE [signer |-> <<>>, err |-> "ssh: no key found"]

\* ssh.MarshalAuthorizedKey(signer.PublicKey()).
MarshalAuthorizedKey(signer) == <<"ssh-ed25519", signer[1]>>

\* box.GenerateKey(rng): a keypair, or the error of reading the random
\* source.  The outcome is an input of New: the branch exists in New, though
\* the Read of a *math/rand.Rand does not fail.
GenerateKey(rngOk) ==
    IF rngOk THEN [pub |-> <<"pub">>, priv |-> <<"priv">>, err |-> Nil]
    ELSE [pub |-> <<>>, priv |-> <<>>, err |-> "rng read failed"]

(***************************************************************************)
(* Flags and the modifiers.                                                *)
(***************************************************************************)
DefaultFlags ==
    [TimeLimit |-> Minute * 30, AuthURL |-> <<>>, Principals |-> <<>>, CA |-> ""]

FlagSets ==
    {DefaultFlags} \cup
    [TimeLimit : FlagTimeLimits, AuthURL : FlagURLs,
     Principals : FlagPrincipals, CA : CAFiles]

\* A Modifier value is the closure with its captured argument.
ModAuthURL(url) == [kind |-> "WithAuthURL", url |-> url]
ModTimeLimit(limit) == [kind |-> "WithTimeLimit", limit |-> limit]
ModCA(fileContent) == [kind |-> "WithCA", fileContent |-> fileContent]
ModPrincipals(raw) == [kind |-> "WithPrincipals", raw |-> raw]
ModFlags(f) == [kind |-> "WithFlags", f |-> f]
\* The check WithFlags makes after its four steps, as an entry of the log.
ModCheck(f) == [kind |-> "checkAuthURL", url |-> f.AuthURL]

Modifiers ==
    {ModAuthURL(u) : u \in URLs} \cup {ModTimeLimit(l) : l \in TimeLimits}
    \cup {ModCA(c) : c \in CAFiles} \cup {ModPrincipals(p) : p \in RawPrincipals}
    \cup {ModFlags(f) : f \in FlagSets}

ModLists == UNION {[1..k -> Modifiers] : k \in 0..MaxMods}

\* The outcome of a modifier applied to *Server s: the server as the
\* modifier left it, and the error it returned.
WithAuthURL(url, s) == [s |-> [s EXCEPT !.authURL = url], err |-> Nil]

\* Mutant of WithTimeLimit: the limit is not stored.
WithTimeLimitNoStore(limit, s) == [s |-> s, err |-> Nil]

WithTimeLimit(limit, s) == [s |-> [s EXCEPT !.limit = limit], err |-> Nil]

WithCA(fileContent, server) ==
    LET p == ParsePrivateKey(fileContent)
    IN  IF p.err # Nil THEN [s |-> server, err |-> p.err]
        ELSE [s |-> [server EXCEPT
                        !.caSigner = p.signer,
                        !.marshalledCAPublicKey = MarshalAuthorizedKey(p.signer)],
              err |-> Nil]

WithPrincipals(raw, server) ==
    LET splitString == Split(raw)
    IN  IF Len(splitString) = 0 \/ (Len(splitString) = 1 /\ splitString[1] = <<>>)
        THEN [s |-> server,
              err |-> "there cannot be 0 principals in the auth server"]
        ELSE [s |-> [server EXCEPT !.principals = splitString], err |-> Nil]

\* One primitive modifier applied to the run r = [s, err, applied]; applied
\* logs the primitive steps invoked, in order.
Prim(m, s) ==
    CASE m.kind = "WithAuthURL" -> WithAuthURL(m.url, s)
      [] m.kind = "WithTimeLimit" -> WithTimeLimit(m.limit, s)
      [] m.kind = "WithCA" -> WithCA(m.fileContent, s)
      [] m.kind = "WithPrincipals" -> WithPrincipals(m.raw, s)

Invoke(m, r) ==
    LET o == Prim(m, r.s)
    IN  [s |-> o.s, err |-> o.err, applied |-> Append(r.applied, m)]

CheckAuthURL(f, r) ==
    [s |-> r.s,
     err |-> IF r.s.authURL = <<>> \/ r.s.authURL = <<"/">>
             THEN "an auth-url must be supplied using the --auth-url parameter"
             ELSE Nil,
     applied |-> Append(r.applied, ModCheck(f))]

\* A sequence of steps, each a function of the run, stopping at the first error.
RECURSIVE Chain(_, _)
Chain(steps, r) ==
    IF steps = <<>> \/ r.err # Nil THEN r
    ELSE Chain(Tail(steps), IF Head(steps).kind = "checkAuthURL"
                            THEN CheckAuthURL(Head(steps).f, r)
                            ELSE Invoke(Head(steps), r))

\* Mutant of WithFlags: the principal list is applied before the CA key.
WithFlagsPrincipalsFirst(f, r) ==
    Chain(<<ModTimeLimit(f.TimeLimit), ModAuthURL(f.AuthURL),
            ModPrincipals(f.Principals), ModCA(f.CA),
            [kind |-> "checkAuthURL", f |-> f]>>, r)

WithFlags(f, r) ==
    Chain(<<ModTimeLimit(f.TimeLimit), ModAuthURL(f.AuthURL),
            ModCA(f.CA), ModPrincipals(f.Principals),
            [kind |-> "checkAuthURL", f |-> f]>>, r)

Apply(m, r) == IF m.kind = "WithFlags" THEN WithFlags(m.f, r) ELSE Invoke(m, r)

\* for _, m := range mods { if err := m(s); err != nil { return nil, err } }
RECURSIVE ApplyMods(_, _)
ApplyMods(mods, r) ==
    IF mods = <<>> \/ r.err # Nil THEN r
    ELSE ApplyMods(Tail(mods), Apply(Head(mods), r))

\* Mutant of NewServer: the literal sets no limit.
NewServerNoLimit(k) ==
    [serverPub |-> k.pub, serverPriv |-> k.priv,
     jars |-> <<>>,
     limit |-> 0,
     authURL |-> <<>>, caSigner |-> <<>>, marshalledCAPublicKey |-> <<>>,
     principals |-> <<>>]

\* The Server literal of New.
NewServer(k) ==
    [serverPub |-> k.pub, serverPriv |-> k.priv,
     jars |-> <<>>,
     limit |-> 30 * Minute,
     authURL |-> <<>>, caSigner |-> <<>>, marshalledCAPublicKey |-> <<>>,
     principals |-> <<>>]

Return(server, err, applied) == [server |-> server, err |-> err, applied |-> applied]

\* Mutant of New: a modifier's error is returned beside the server.
NewKeepsServer(rngOk, mods) ==
    LET k == GenerateKey(rngOk)
    IN  IF k.err # Nil THEN Return(<<>>, k.err, <<>>)
        ELSE
          LET r == ApplyMods(mods, [s |-> NewServer(k), err |-> Nil, applied |-> <<>>])
              s == [r.s EXCEPT !.authURL = TrimSuffix(r.s.authURL, <<"/">>)]
          IN  IF r.err # Nil THEN Return(<<s>>, r.err, r.applied)
              ELSE IF s.authURL = <<>>
              THEN Return(<<>>, "API usage error - an authentication URL must be set",
                          r.applied)
              ELSE Return(<<s>>, Nil, r.applied)

New(rngOk, mods) ==
    LET k == GenerateKey(rngOk)
    IN  IF k.err # Nil THEN Return(<<>>, k.err, <<>>)
        ELSE
          LET r == ApplyMods(mods, [s |-> NewServer(k), err |-> Nil, applied |-> <<>>])
              s == [r.s EXCEPT !.authURL = TrimSuffix(r.s.authURL, <<"/">>)]
          IN  IF r.err # Nil THEN Return(<<>>, r.err, r.applied)
              ELSE IF s.authURL = <<>>
              THEN Return(<<>>, "API usage error - an authentication URL must be set",
                          r.applied)
              ELSE Return(<<s>>, Nil, r.applied)

(***************************************************************************)
(* The session jar store of a constructed Server: Server.jars maps a client*)
(* public key to its Jar.  Every operation runs under the store's lock, so *)
(* each is one atomic step.  A Jar's exits counts its transitions out of   *)
(* pending.  hist is the history of each key: live, the number of Jars     *)
(* created for it that have not reached a terminal state; seen, whether a  *)
(* Jar was ever created for it; removed, whether one was ever removed.     *)
(***************************************************************************)
MaxTicks == 3
TickStep == 10 * Minute

Keys == {"k1", "k2"}
Workers == {"w1", "w2"}
Reaper == "reaper"
Procs == Workers \cup {Reaper}
Identities == {<<"p">>, <<"x">>}

Idle == [st |-> "idle", key |-> ""]
Removing(k) == [st |-> "remove", key |-> k]
NoJar == [created |-> 0, deadline |-> 0, state |-> "", exits |-> 0]
NoOp == [op |-> "none", key |-> "", result |-> "", pre |-> NoJar]
NoHist == [k \in Keys |-> [live |-> 0, seen |-> FALSE, removed |-> FALSE]]

jars == ret.server[1].jars
limit == ret.server[1].limit
principals == ret.server[1].principals

\* What the operation that led to the current state returned, with the Jar
\* it met under the key (NoJar for none) as it was before; NoOp after a step
\* of the clock.
Result(op, k, result) ==
    [op |-> op, key |-> k, result |-> result,
     pre |-> IF k \in DOMAIN jars THEN jars[k] ELSE NoJar]

Put(m, k, v) == [x \in DOMAIN m \cup {k} |-> IF x = k THEN v ELSE m[x]]
Delete(m, k) == [x \in DOMAIN m \ {k} |-> m[x]]

NewJar ==
    [created |-> now, deadline |-> now + limit, state |-> "pending", exits |-> 0]

\* A Jar is due for expiry from its deadline on.
Expired(j, t) == t >= j.deadline

\* PrincipalAuthorizer.IsAllowed: membership in the principal set.
IsAllowed(identity) == \E i \in 1..Len(principals) : principals[i] = identity

\* The write of a terminal state into the Jar of key k.
SetState(k, state) ==
    /\ ret' = [ret EXCEPT !.server[1].jars[k].state = state,
                          !.server[1].jars[k].exits = @ + 1]
    /\ hist' = [hist EXCEPT ![k].live = @ - 1]

\* The store's write of a new Jar under key k.
Store(k) ==
    /\ ret' = [ret EXCEPT !.server[1].jars = Put(jars, k, NewJar)]
    /\ hist' = [hist EXCEPT ![k].live = @ + 1, ![k].seen = TRUE]

\* Mutant of Create: an existing Jar is overwritten.
CreateOverwrites(k) ==
    /\ Store(k)
    /\ last' = Result("Create", k, "OK")
    /\ UNCHANGED <<pc, args, now, wpc>>

\* Create(clientPubKey) -> Jar | Error(DuplicateSession)
Create(k) ==
    /\ IF k \in DOMAIN jars
       THEN /\ last' = Result("Create", k, "DuplicateSession")
            /\ UNCHANGED <<ret, hist>>
       ELSE /\ Store(k)
            /\ last' = Result("Create", k, "OK")
    /\ UNCHANGED <<pc, args, now, wpc>>

\* Lookup(clientPubKey) -> Jar | Error(NotFound), expiry checked on access.
Lookup(k) ==
    /\ last' = IF k \in DOMAIN jars /\ ~Expired(jars[k], now)
               THEN Result("Lookup", k, "OK")
               ELSE Result("Lookup", k, "NotFound")
    /\ UNCHANGED <<pc, args, ret, hist, now, wpc>>

\* The callback handler of worker w: Complete(clientPubKey, identity) ->
\* Error(NotFound | AlreadyTerminal); the Jar goes to completed, or to
\* rejected when the identity is not allowed, and the handler then removes it.
Callback(w, k, identity) ==
    /\ wpc[w] = Idle
    /\ IF k \notin DOMAIN jars
       THEN /\ last' = Result("Complete", k, "NotFound")
            /\ UNCHANGED <<ret, hist, wpc>>
       ELSE IF jars[k].state # "pending"
       THEN /\ last' = Result("Complete", k, "AlreadyTerminal")
            /\ UNCHANGED <<ret, hist, wpc>>
       ELSE /\ SetState(k, IF IsAllowed(identity) THEN "completed" ELSE "rejected")
            /\ wpc' = [wpc EXCEPT ![w] = Removing(k)]
            /\ last' = Result("Complete", k, "OK")
    /\ UNCHANGED <<pc, args, now>>

\* Remove(clientPubKey), by the handler or the reaper that made the Jar terminal.
Remove(p) ==
    /\ wpc[p].st = "remove"
    /\ ret' = [ret EXCEPT !.server[1].jars = Delete(jars, wpc[p].key)]
    /\ hist' = [hist EXCEPT ![wpc[p].key].removed = TRUE]
    /\ wpc' = [wpc EXCEPT ![p] = Idle]
    /\ last' = Result("Remove", wpc[p].key, "OK")
    /\ UNCHANGED <<pc, args, now>>

\* Mutant of Expire: the reaper does not look at the Jar's state.
ExpireAnyState(k) ==
    /\ wpc[Reaper] = Idle
    /\ k \in DOMAIN jars
    /\ Expired(jars[k], now)
    /\ SetState(k, "expired")
    /\ wpc' = [wpc EXCEPT ![Reaper] = Removing(k)]
    /\ last' = Result("Expire", k, "OK")
    /\ UNCHANGED <<pc, args, now>>

\* The reaper on key k: a pending Jar past its deadline goes to expired and
\* is then removed; on a Jar already terminal, expiry is a no-op.
Expire(k) ==
    /\ wpc[Reaper] = Idle
    /\ k \in DOMAIN jars
    /\ Expired(jars[k], now)
    /\ IF jars[k].state = "pending"
       THEN /\ SetState(k, "expired")
            /\ wpc' = [wpc EXCEPT ![Reaper] = Removing(k)]
            /\ last' = Result("Expire", k, "OK")
       ELSE /\ last' = Result("Expire", k, "NoOp")
            /\ UNCHANGED <<ret, hist, wpc>>
    /\ UNCHANGED <<pc, args, now>>

Tick ==
    /\ now < MaxTicks * TickStep
    /\ now' = now + TickStep
    /\ last' = NoOp
    /\ UNCHANGED <<pc, args, ret, hist, wpc>>

(***************************************************************************)
(* Construction: one call of New on any key-generation outcome and any     *)
(* list of modifiers.                                                      *)
(***************************************************************************)
StoreIdle ==
    /\ hist = NoHist
    /\ now = 0
    /\ wpc = [p \in Procs |-> Idle]
    /\ last = NoOp

Init ==
    /\ pc = "start"
    /\ args = [rngOk |-> TRUE, mods |-> <<>>]
    /\ ret = Return(<<>>, Nil, <<>>)
    /\ StoreIdle

CallNew ==
    /\ pc = "start"
    /\ \E rngOk \in BOOLEAN, mods \in ModLists :
          /\ args' = [rngOk |-> rngOk, mods |-> mods]
          /\ ret' = New(rngOk, mods)
    /\ pc' = "returned"
    /\ UNCHANGED <<hist, now, wpc, last>>

Next == CallNew

Spec == Init /\ [][Next]_vars

(***************************************************************************)
(* The store of a Server that New has built, under every interleaving of   *)
(* requests, callbacks, the reaper and the clock.                          *)
(***************************************************************************)
GoodFlags ==
    [TimeLimit |-> 20 * Minute, AuthURL |-> <<"a", "/">>,
     Principals |-> <<"p">>, CA |-> "pem1"]

StoreConfigs ==
    {<<ModAuthURL(<<"a">>), ModPrincipals(<<"p", ",", "q">>)>>,
     <<ModAuthURL(<<"a">>), ModPrincipals(<<"p">>), ModTimeLimit(10 * Minute)>>,
     <<ModAuthURL(<<"a">>), ModPrincipals(<<"p">>), ModTimeLimit(0)>>,
     <<ModFlags(GoodFlags)>>}

InitStore ==
    /\ pc = "serving"
    /\ \E mods \in StoreConfigs :
          /\ args = [rngOk |-> TRUE, mods |-> mods]
          /\ ret = New(TRUE, mods)
    /\ ret.server # <<>>
    /\ StoreIdle

NextStore ==
    \/ \E k \in Keys : Create(k)
    \/ \E k \in Keys : Lookup(k)
    \/ \E w \in Workers, k \in Keys, identity \in Identities : Callback(w, k, identity)
    \/ \E p \in Procs : Remove(p)
    \/ \E k \in Keys : Expire(k)
    \/ Tick

SpecStore == InitStore /\ [][NextStore]_vars

(***************************************************************************)
(* What the claims speak of, computed from the arguments of the call alone.*)
(***************************************************************************)
\* The configuration steps a modifier list asks for, in order.
RECURSIVE Flatten(_)
Flatten(mods) ==
    IF mods = <<>> THEN <<>>
    ELSE LET m == Head(mods)
         IN  (IF m.kind = "WithFlags"
              THEN <<ModTimeLimit(m.f.TimeLimit), ModAuthURL(m.f.AuthURL),
                     ModCA(m.f.CA), ModPrincipals(m.f.Principals), ModCheck(m.f)>>
              ELSE <<m>>) \o Flatten(Tail(mods))

StepFails(step) ==
    \/ step.kind = "WithCA" /\ step.fileContent \notin ValidKeys
    \/ step.kind = "WithPrincipals" /\ step.raw = <<>>
    \/ step.kind = "checkAuthURL" /\ step.url \in {<<>>, <<"/">>}

StepErr(step) ==
    CASE step.kind = "WithCA" -> "ssh: no key found"
      [] step.kind = "WithPrincipals" ->
             "there cannot be 0 principals in the auth server"
      [] step.kind = "checkAuthURL" ->
             "an auth-url must be supplied using the --auth-url parameter"
      [] OTHER -> Nil

Min(S) == CHOOSE i \in S : \A j \in S : i <= j
Max(S) == CHOOSE i \in S : \A j \in S : j <= i

FailingIn(steps) == {i \in 1..Len(steps) : StepFails(steps[i])}
OfKind(steps, kind) == {i \in 1..Len(steps) : steps[i].kind = kind}

\* The URL configured last, "" when none was.
LastURL(steps) ==
    LET at == OfKind(steps, "WithAuthURL")
    IN  IF at = {} THEN <<>> ELSE steps[Max(at)].url

\* The limit configured last, 30 minutes when none was.
ThirtyMinutes == 30 * Minute
LastLimit(steps) ==
    LET at == OfKind(steps, "WithTimeLimit")
    IN  IF at = {} THEN ThirtyMinutes ELSE steps[Max(at)].limit

Steps == Flatten(args.mods)
Failing == FailingIn(Steps)
ConfiguredURL == LastURL(Steps)
ConfiguredLimit == LastLimit(Steps)

Returned == pc = "returned"
Built == Returned /\ ret.server # <<>>
Server == ret.server[1]

(***************************************************************************)
(* The claims about construction.                                          *)
(***************************************************************************)
\* C1: every Server New returns without an error has a non-empty principal
\* list, whatever the modifiers (none, or none applying WithPrincipals).
C1_PrincipalsNonEmpty == Built => Len(Server.principals) > 0

\* C2: every Server New returns has a stored auth URL that is neither empty
\* nor the root path "/".
C2_AuthURLNotRoot == Built => Server.authURL \notin {<<>>, <<"/">>}

\* C6: every Server New returns holds CA signing material: a CA signer and
\* the authorized-key form of its public key.
C6_HoldsCAMaterial ==
    Built => Server.caSigner # <<>> /\ Server.marshalledCAPublicKey # <<>>

\* C7: New returns either a Server or an error, never both and never
\* neither; and it returns the error whenever key generation fails, a
\* modifier returns an error, or the endpoint URL is missing or empty.
C7_FailuresAreFatal ==
    Returned =>
        LET steps == Flatten(args.mods)
        IN  /\ (ret.server # <<>>) <=> (ret.err = Nil)
            /\ (~args.rngOk \/ FailingIn(steps) # {} \/ LastURL(steps) = <<>>)
                   => ret.err # Nil /\ ret.server = <<>>

C7_Witness ==
    /\ Returned /\ args.rngOk /\ Failing # {}
    /\ ret.err # Nil /\ ret.server = <<>>

\* C8 as stated: the auth URL of a returned Server never ends in "/".
C8_NoTrailingSlash == Built => ~HasSuffix(Server.authURL, <<"/">>)

\* C8 amended: the auth URL of a returned Server is the URL configured last
\* without its final "/" if it had one; it ends in "/" exactly when the
\* configured URL ended in "//".
C8_OneSlashStripped ==
    Built =>
        LET url == ConfiguredURL
        IN  /\ \/ url = Server.authURL
               \/ url = Server.authURL \o <<"/">>
            /\ HasSuffix(Server.authURL, <<"/">>) <=> HasSuffix(url, <<"/", "/">>)

C8_Witness ==
    /\ Built
    /\ ConfiguredURL = <<"a", "/">>
    /\ Server.authURL = <<"a">>

\* C9: the limit of a returned Server is that of the last WithTimeLimit or
\* WithFlags step, 30 minutes when there is none; DefaultFlags carries
\* TimeLimit 30 minutes.
C9_LimitDefaultsTo30 ==
    /\ DefaultFlags.TimeLimit = ThirtyMinutes
    /\ Built => Server.limit = ConfiguredLimit

C9_Witness ==
    /\ Built
    /\ OfKind(Steps, "WithTimeLimit") = {}
    /\ Server.limit = ThirtyMinutes

\* C10: the steps applied are the configured steps in order (for WithFlags:
\* time limit, URL, CA key, principals, URL check) up to and including the
\* first failing one, whose error New returns; no later step is applied.
C10_OrderedFirstFailure ==
    (Returned /\ args.rngOk) =>
        LET steps == Flatten(args.mods)
            failing == FailingIn(steps)
            first == Min(failing)
        IN  IF failing = {}
            THEN ret.applied = steps
            ELSE /\ ret.applied = SubSeq(steps, 1, first)
                 /\ ret.err = StepErr(steps[first])
                 /\ ret.server = <<>>

C10_Witness ==
    /\ Returned /\ args.rngOk
    /\ Len(args.mods) = 2
    /\ args.mods[1].kind = "WithFlags"
    /\ args.mods[1].f.CA \notin ValidKeys
    /\ args.mods[1].f.Principals = <<>>
    /\ ret.err = "ssh: no key found"
    /\ Len(ret.applied) = 3

(***************************************************************************)
(* The claims about the jar store.                                         *)
(***************************************************************************)
Terminal == {"completed", "expired", "rejected"}
Pending(k) == k \in DOMAIN jars /\ jars[k].state = "pending"

\* C3: the store starts empty and there is at most one live Jar per client
\* key, the one the store holds; Create on a key with a pending Jar fails
\* with DuplicateSession and leaves that Jar as it was; Create on a key
\* without a Jar in the store (none yet, or the earlier one terminal and
\* removed) succeeds.
C3_AtMostOneLiveJar ==
    /\ \A k \in Keys :
          /\ hist[k].live <= 1
          /\ hist[k].live = 1 <=> Pending(k)
          /\ k \in DOMAIN jars => hist[k].seen
    /\ last.op = "Create" =>
          /\ last.pre.state = "pending" =>
                /\ last.result = "DuplicateSession"
                /\ jars[last.key] = last.pre
          /\ last.pre = NoJar =>
                /\ last.result = "OK"
                /\ Pending(last.key)

C3_Witness ==
    /\ last.op = "Create" /\ last.result = "OK"
    /\ hist[last.key].removed
    /\ Pending(last.key)

\* C4: every Jar leaves pending at most once and is then in exactly one of
\* completed, expired, rejected, whichever of Complete and expiry came
\* first; Complete on a terminal Jar returns AlreadyTerminal and expiry of a
\* terminal Jar is a no-op, both leaving the Jar as it was.
C4_ExactlyOneTerminal ==
    /\ \A k \in DOMAIN jars :
          /\ jars[k].exits <= 1
          /\ jars[k].exits = 0 <=> jars[k].state = "pending"
          /\ jars[k].exits = 1 <=> jars[k].state \in Terminal
    /\ last.op = "Complete" =>
          /\ last.pre.state \in Terminal <=> last.result = "AlreadyTerminal"
          /\ last.result = "AlreadyTerminal" => jars[last.key] = last.pre
    /\ (last.op = "Expire" /\ last.pre.state \in Terminal) => jars[last.key] = last.pre

C4_Witness ==
    /\ last.op = "Complete" /\ last.result = "AlreadyTerminal"
    /\ last.pre.state = "expired"
    /\ now >= last.pre.deadline

====
